---- MODULE Spec2Model ----
(***************************************************************************)
(* Model of batch_processor.py: the job record, the StateManager (state    *)
(* store), the AudioCombiner and the phase pipeline of                     *)
(* AudiobookProcessor.process_pdf, with process kills between any two      *)
(* steps of an invocation.                                                 *)
(***************************************************************************)
EXTENDS Integers, Sequences, FiniteSets, TLC

(* ------------------------------ bounds --------------------------------- *)

\* largest number of segment files the Synthesizer leaves in an audio dir
MaxSegs == 1
\* invocations are not started once the persisted retry_count reached this
MaxRetryCount == 3
\* longest input list handed to process_batch
MaxBatch == 3
\* most segment files in the directory handed to the combiner
MaxFiles == 5
\* most segment files of that directory that are not good
MaxFaults == 2
\* largest of the small group sizes of the combiner
MaxChunkSize == 5

(* -------------------------- program constants -------------------------- *)

\* AudiobookProcessor.__init__: max_retries: int = 3
DefaultMaxRetries == 3
\* AudiobookProcessor.__init__: AudioCombiner(chunk_size=50)
ProcessorChunkSize == 50
\* the sample rate of the segments the Synthesizer writes
Rate24k == 24000
\* the sample rate of a segment that does not match the others
Rate22k == 22050

(* ------------------------------- state --------------------------------- *)

VARIABLES
    store,        \* state_dir: job id -> persisted JobState (a partial function)
    output,       \* output files: output path -> file (a partial function)
    audio_dir,    \* cwd/audiobooks/<base_name>: per stem, file name -> segment
    max_retries,  \* AudiobookProcessor.max_retries
    pc,           \* position of the running process_pdf invocation, or "idle"
    call,         \* arguments of the current / last invocation
    job,          \* the local JobState of the running invocation
    err,          \* text of the exception being handled
    ret,          \* outcome of the last invocation
    log,          \* last retry message logged by the failure handler
    trace,        \* history: store operations and collaborator calls of the
                  \* current / last invocation, in order
    loaded,       \* history: the record load_state returned to this invocation
    succeeded,    \* history: per job id, phases whose collaborator has returned
    killed,       \* history: what the last kill interrupted
    streak,       \* history: consecutive failed invocations since no record
    bat,          \* the running process_batch call: its locals and position
    cmb,          \* the running combine_audio_files call, stepwise
    state_dir,    \* the state directory: "present", "missing" or "faulty"
    sm            \* the last StateManager operation made by a direct caller

vars == <<store, output, audio_dir, max_retries, pc, call, job, err, ret, log,
          trace, loaded, succeeded, killed, streak, bat, cmb, state_dir, sm>>

(* ------------------------------- paths --------------------------------- *)

\* the inputs: resolved paths <dir>/<stem>.pdf
Dirs == {"/path/to"}
Stems == {"book"}
Paths == [dir : Dirs, stem : Stems]

\* mutant: the identity keeps the directory of the input
get_job_id_WithParent(input_path) == <<input_path.dir, input_path.stem>>

\* StateManager._get_job_id: Path(input_path).stem
get_job_id(input_path) == input_path.stem

\* process_pdf: output_path = input_path.parent / f"{base_name}.wav"
OutputPath(input_path) == [dir |-> input_path.dir, stem |-> input_path.stem]

(* ---------------------------- partial maps ----------------------------- *)

Put(f, k, v) == [x \in (DOMAIN f) \cup {k} |-> IF x = k THEN v ELSE f[x]]
Remove(f, k) == [x \in (DOMAIN f) \ {k} |-> f[x]]
EmptyMap == [x \in {} |-> TRUE]

(* ----------------------------- job record ------------------------------ *)

Phases == {"extraction", "generation", "combination"}
Statuses == {"pending", "extracting", "generating", "combining",
             "completed", "failed"}

\* mutant: the new record starts with extraction flagged done
FreshJob_Extracted(input_path) ==
    [input_path      |-> input_path,
     output_path     |-> OutputPath(input_path),
     status          |-> "pending",
     started_at      |-> "now",
     completed_at    |-> "None",
     error           |-> "None",
     extraction_done |-> TRUE,
     generation_done |-> FALSE,
     combination_done|-> FALSE,
     retry_count     |-> 0]

\* JobState(input_path=..., output_path=..., status="pending", started_at=now)
FreshJob(input_path) ==
    [input_path      |-> input_path,
     output_path     |-> OutputPath(input_path),
     status          |-> "pending",
     started_at      |-> "now",
     completed_at    |-> "None",
     error           |-> "None",
     extraction_done |-> FALSE,
     generation_done |-> FALSE,
     combination_done|-> FALSE,
     retry_count     |-> 0]

\* the local variable job before it is bound
NoJob == <<>>

(* ----------------------------- state store ----------------------------- *)

\* the keyword arguments of JobState and the defaults of the optional ones
JobFields == {"input_path", "output_path", "status", "started_at",
              "completed_at", "error", "extraction_done", "generation_done",
              "combination_done", "retry_count"}
RequiredFields == {"input_path", "output_path", "status"}
FieldDefaults ==
    [started_at |-> "None", completed_at |-> "None", error |-> "None",
     extraction_done |-> FALSE, generation_done |-> FALSE,
     combination_done |-> FALSE, retry_count |-> 0]

\* a state file that does not hold a JSON object (cut short, overwritten)
Malformed == [garbage |-> TRUE]

\* JobState.from_dict: cls(**data) raises TypeError on an unknown keyword
\* and on a missing required one; optional fields take their defaults
Parses(data) ==
    RequiredFields \subseteq DOMAIN data /\ DOMAIN data \subseteq JobFields
from_dict(data) ==
    IF DOMAIN data = JobFields THEN data
    ELSE [f \in JobFields |->
            IF f \in DOMAIN data THEN data[f] ELSE FieldDefaults[f]]

\* StateManager.save_state: overwrite <state_dir>/<job id>.json with the
\* fields of the record; open() raises when the directory is missing or
\* cannot be written, which is logged and swallowed
save_state(st, j) ==
    IF state_dir = "present"
    THEN Put(st, get_job_id(j.input_path), j)
    ELSE st

\* mutant: whatever the file holds is returned as the record
load_state_Unchecked(st, input_path) ==
    IF get_job_id(input_path) \notin DOMAIN st
    THEN <<>>
    ELSE <<st[get_job_id(input_path)]>>

\* StateManager.load_state: None (<<>>) when the file does not exist, when
\* it cannot be opened and when its content is not a JobState
load_state(st, input_path) ==
    IF get_job_id(input_path) \notin DOMAIN st
    THEN <<>>
    ELSE IF state_dir # "present" \/ ~Parses(st[get_job_id(input_path)])
    THEN <<>>
    ELSE <<from_dict(st[get_job_id(input_path)])>>

\* StateManager.delete_state: unlink when the file exists
delete_state(st, input_path) ==
    IF get_job_id(input_path) \in DOMAIN st
    THEN Remove(st, get_job_id(input_path))
    ELSE st

\* delete_state has no try block: an unlink that fails raises to the caller
UnlinkRaises(st, input_path) ==
    state_dir = "faulty" /\ get_job_id(input_path) \in DOMAIN st

(* ---------------------------- audio combiner --------------------------- *)

\* a segment file: header (rate, frame count) and sample data
SegRates == {Rate24k}

\* an output file that exists; size 0 iff it has neither header nor frames
EmptyFile == [header |-> FALSE, rate |-> 0, frames |-> <<>>]
\* output_path.exists() and output_path.stat().st_size > 0
OutputNonEmpty(files, path) ==
    /\ path \in DOMAIN files
    /\ (files[path].header \/ Len(files[path].frames) > 0)

\* sorted(audio_dir.glob("*.wav")): the file names in ascending order
RECURSIVE SortedNames(_)
SortedNames(names) ==
    IF names = {} THEN <<>>
    ELSE LET m == CHOOSE x \in names : \A y \in names : x <= y
         IN  <<m>> \o SortedNames(names \ {m})

\* audio_files as the list of segment files in sorted order
AudioFiles(dir) ==
    LET names == SortedNames(DOMAIN dir)
    IN  [i \in 1..Len(names) |-> dir[names[i]]]

\* first pass: sf.info on every file; the first rate is the expected rate
RECURSIVE Preflight(_, _, _, _)
Preflight(files, i, sr, total_samples) ==
    IF i > Len(files)
    THEN [ok |-> TRUE, sr |-> sr, total_samples |-> total_samples]
    ELSE IF ~files[i].header_ok
    THEN [ok |-> FALSE, sr |-> sr, total_samples |-> total_samples]
    ELSE IF sr = <<>>
    THEN Preflight(files, i + 1, <<files[i].rate>>,
                   total_samples + Len(files[i].data))
    ELSE IF files[i].rate # sr[1]
    THEN [ok |-> FALSE, sr |-> sr, total_samples |-> total_samples]
    ELSE Preflight(files, i + 1, sr, total_samples + Len(files[i].data))

\* mutant: every group is cut from the start of the list
ChunkFiles_FromStart(files, i, chunk_size) ==
    SubSeq(files, 1, IF chunk_size < Len(files) THEN chunk_size ELSE Len(files))

\* chunk_files = audio_files[i:i + chunk_size], with i counted from 0
ChunkFiles(files, i, chunk_size) ==
    SubSeq(files, i + 1,
           IF i + chunk_size < Len(files) THEN i + chunk_size ELSE Len(files))

\* sf.read of every file of the chunk succeeds
ChunkReadable(chunk) == \A k \in 1..Len(chunk) : chunk[k].data_ok

\* np.concatenate(chunk_data)
RECURSIVE Concatenate(_)
Concatenate(chunk) ==
    IF chunk = <<>> THEN <<>>
    ELSE chunk[1].data \o Concatenate(Tail(chunk))

\* second pass: for i in range(0, len(audio_files), chunk_size)
RECURSIVE StreamChunks(_, _, _, _, _)
StreamChunks(files, i, chunk_size, written, progress) ==
    IF i >= Len(files)
    THEN [ok |-> TRUE, frames |-> written, progress |-> progress]
    ELSE LET chunk == ChunkFiles(files, i, chunk_size)
             called == Append(progress, <<i, Len(files)>>)
         IN  IF ~ChunkReadable(chunk)
             THEN [ok |-> FALSE, frames |-> written, progress |-> called]
             ELSE StreamChunks(files, i + chunk_size, chunk_size,
                               written \o Concatenate(chunk), called)

\* AudioCombiner.combine_audio_files: the return value, the output files
\* afterwards and the progress callbacks made
combine_audio_files(dir, files_before, output_path, chunk_size) ==
    LET audio_files == AudioFiles(dir)
        pre == Preflight(audio_files, 1, <<>>, 0)
        run == StreamChunks(audio_files, 0, chunk_size, <<>>, <<>>)
    IN  IF Len(audio_files) = 0
        THEN [success |-> FALSE, files |-> files_before, progress |-> <<>>]
        ELSE IF ~pre.ok
        THEN [success |-> FALSE, files |-> files_before, progress |-> <<>>]
        ELSE [success  |-> run.ok,
              files    |-> Put(files_before, output_path,
                               [header |-> TRUE, rate |-> pre.sr[1],
                                frames |-> run.frames]),
              progress |-> run.progress]

\* the output files a kill during combine_audio_files can leave behind:
\* untouched, or opened and holding any prefix of what the run writes
KilledCombineFiles(dir, files_before, output_path, chunk_size) ==
    LET full == combine_audio_files(dir, files_before, output_path, chunk_size)
    IN  {files_before} \cup
        IF output_path \in DOMAIN full.files /\ full.files # files_before
        THEN {Put(files_before, output_path,
                  [full.files[output_path] EXCEPT
                      !.frames = SubSeq(full.files[output_path].frames, 1, k)])
              : k \in 0..Len(full.files[output_path].frames)}
        ELSE {}

(* --------------------- what the collaborators leave -------------------- *)

\* segment files the Synthesizer can write: one frame tagged with the name
SynthSegments(name) ==
    [rate : SegRates, data : {<<name>>}, header_ok : {TRUE}, data_ok : BOOLEAN]

\* the audio directories an execution of the Synthesizer can leave behind
AudioDirs ==
    UNION {[names -> UNION {SynthSegments(n) : n \in names}]
           : names \in SUBSET (1..MaxSegs)}

\* directories whose file name -> segment tagging is consistent
SynthDirs == {d \in AudioDirs : \A n \in DOMAIN d : d[n].data = <<n>>}

(* --------------------------- process_pdf ------------------------------- *)

\* the record held in the local variable job
Job == job[1]
\* the audio directory and the output path of the running invocation
BaseName == call.path.stem
OutPath == OutputPath(call.path)

\* the elements of a sequence
Range(s) == {s[i] : i \in 1..Len(s)}

\* mutant: the shortcut also wants the output to carry a WAV header
AlreadyCompleted_ValidOnly(files, input_path) ==
    /\ OutputNonEmpty(files, OutputPath(input_path))
    /\ files[OutputPath(input_path)].header

\* process_pdf: "Check if already completed"
AlreadyCompleted(files, input_path) ==
    OutputNonEmpty(files, OutputPath(input_path))

\* mutant: the loaded record is never used
LoadOrCreate_AlwaysFresh(st, input_path, resume) == <<FreshJob(input_path)>>

\* process_pdf: "Load or create job state"
LoadOrCreate(st, input_path, resume) ==
    IF load_state(st, input_path) # <<>> /\ resume
    THEN load_state(st, input_path)
    ELSE <<FreshJob(input_path)>>

\* mutant: the retry limit is enforced on the extraction phase
NeedsExtraction_RetryLimited(j, skip_extraction) ==
    ~j.extraction_done /\ ~skip_extraction /\ j.retry_count < max_retries

\* the guards of the three phases
NeedsExtraction(j, skip_extraction) ==
    ~j.extraction_done /\ ~skip_extraction
\* mutant: the generation guard forgets the completion flag
NeedsGeneration_NoFlag(j, skip_generation) == ~skip_generation
NeedsGeneration(j, skip_generation) ==
    ~j.generation_done /\ ~skip_generation
NeedsCombination(j) == ~j.combination_done

\* mutant: the failure handler forgets to count the attempt
FailedJob_NoIncrement(j, e) == [j EXCEPT !.status = "failed", !.error = e]

\* mutant: the failure handler restarts the job from the first phase
FailedJob_ResetFlags(j, e) ==
    [j EXCEPT !.status = "failed", !.error = e,
              !.retry_count = j.retry_count + 1,
              !.extraction_done = FALSE, !.generation_done = FALSE,
              !.combination_done = FALSE]

\* the except clause: the record saved by the failure handler
FailedJob(j, e) ==
    [j EXCEPT !.status = "failed", !.error = e,
              !.retry_count = j.retry_count + 1]

\* the except clause: "Retry logic", which only chooses a log message
RetryMessage(j, limit) ==
    IF j.retry_count < limit THEN "will retry" ELSE "max retries exceeded"

\* the model starts no invocation once the persisted retry_count passed the
\* bound, which keeps retry_count finite
WithinRetryBound(st, input_path) ==
    IF load_state(st, input_path) = <<>>
    THEN TRUE
    ELSE load_state(st, input_path)[1].retry_count < MaxRetryCount

\* history: the chain of consecutive failed invocations for one input that
\* started with no record; -1 when the chain is broken
StreakAtEntry(input_path, resume) ==
    IF AlreadyCompleted(output, input_path) \/ ~resume THEN -1
    ELSE IF load_state(store, input_path) = <<>> THEN 0
    ELSE IF ret = "False" /\ streak >= 0 /\ call.path = input_path
         THEN streak
         ELSE -1

\* history: the collaborator a kill interrupted, kept while the next
\* invocation is for the same input, resumes and has the same skip toggles
KilledAtEntry(input_path, resume, skip_extraction, skip_generation) ==
    IF /\ ret = "killed" /\ resume /\ call.path = input_path
       /\ call.skip_extraction = skip_extraction
       /\ call.skip_generation = skip_generation
    THEN killed
    ELSE "none"

\* process_pdf up to the try block: the shortcut, then load or create
Enter(input_path, resume, skip_extraction, skip_generation) ==
    /\ pc = "idle"
    /\ WithinRetryBound(store, input_path)
    /\ call' = [path |-> input_path, resume |-> resume,
                skip_extraction |-> skip_extraction,
                skip_generation |-> skip_generation]
    /\ streak' = StreakAtEntry(input_path, resume)
    /\ killed' = KilledAtEntry(input_path, resume,
                               skip_extraction, skip_generation)
    /\ IF AlreadyCompleted(output, input_path)
       THEN /\ ret' = "True"
            /\ pc' = "idle"
            /\ trace' = <<>>
            /\ loaded' = <<>>
            /\ job' = NoJob
       ELSE /\ ret' = "running"
            /\ pc' = "phase1"
            /\ trace' = <<"load">>
            /\ loaded' = load_state(store, input_path)
            /\ job' = LoadOrCreate(store, input_path, resume)
    /\ UNCHANGED <<store, output, audio_dir, max_retries, err, log, succeeded>>

\* mutant: the completion flag is set together with the marker
Phase1_FlagEarly ==
    /\ pc = "phase1"
    /\ IF NeedsExtraction(Job, call.skip_extraction)
       THEN /\ job' = <<[Job EXCEPT !.status = "extracting",
                                    !.extraction_done = TRUE]>>
            /\ store' = save_state(store, job'[1])
            /\ trace' = Append(trace, "save")
            /\ pc' = "call_extract"
       ELSE /\ pc' = "phase2"
            /\ UNCHANGED <<job, store, trace>>
    /\ UNCHANGED <<bat, cmb, state_dir, sm>>
    /\ UNCHANGED <<output, audio_dir, max_retries, call, err, ret, log,
                   loaded, succeeded, killed, streak>>

\* Phase 1: mark "extracting" and save, or skip
Phase1 ==
    /\ pc = "phase1"
    /\ IF NeedsExtraction(Job, call.skip_extraction)
       THEN /\ job' = <<[Job EXCEPT !.status = "extracting"]>>
            /\ store' = save_state(store, job'[1])
            /\ trace' = Append(trace, "save")
            /\ pc' = "call_extract"
       ELSE /\ pc' = "phase2"
            /\ UNCHANGED <<job, store, trace>>
    /\ UNCHANGED <<bat, cmb, state_dir, sm>>
    /\ UNCHANGED <<output, audio_dir, max_retries, call, err, ret, log,
                   loaded, succeeded, killed, streak>>

\* extract_book(...) is called
ExtractCall ==
    /\ pc = "call_extract"
    /\ pc' = "in_extract"
    /\ trace' = Append(trace, "extract")
    /\ UNCHANGED <<bat, cmb, state_dir, sm>>
    /\ UNCHANGED <<store, output, audio_dir, max_retries, call, job, err, ret,
                   log, loaded, succeeded, killed, streak>>

\* extract_book returns
ExtractReturn ==
    /\ pc = "in_extract"
    /\ pc' = "done_extract"
    /\ succeeded' = [succeeded EXCEPT ![BaseName] = @ \cup {"extraction"}]
    /\ UNCHANGED <<bat, cmb, state_dir, sm>>
    /\ UNCHANGED <<store, output, audio_dir, max_retries, call, job, err, ret,
                   log, trace, loaded, killed, streak>>

\* mutant: the exception of extract_book is dropped and phase 2 starts
ExtractRaise_Ignored ==
    /\ pc = "in_extract"
    /\ pc' = "phase2"
    /\ err' = err
    /\ UNCHANGED <<bat, cmb, state_dir, sm>>
    /\ UNCHANGED <<store, output, audio_dir, max_retries, call, job, ret, log,
                   trace, loaded, succeeded, killed, streak>>

\* extract_book raises
ExtractRaise ==
    /\ pc = "in_extract"
    /\ pc' = "except"
    /\ err' = "collaborator error"
    /\ UNCHANGED <<bat, cmb, state_dir, sm>>
    /\ UNCHANGED <<store, output, audio_dir, max_retries, call, job, ret, log,
                   trace, loaded, succeeded, killed, streak>>

\* job.extraction_done = True; save
Phase1Done ==
    /\ pc = "done_extract"
    /\ job' = <<[Job EXCEPT !.extraction_done = TRUE]>>
    /\ store' = save_state(store, job'[1])
    /\ trace' = Append(trace, "save")
    /\ pc' = "phase2"
    /\ UNCHANGED <<bat, cmb, state_dir, sm>>
    /\ UNCHANGED <<output, audio_dir, max_retries, call, err, ret, log,
                   loaded, succeeded, killed, streak>>

\* mutant: the marker is set in memory but not saved
Phase2_NoSave ==
    /\ pc = "phase2"
    /\ IF NeedsGeneration(Job, call.skip_generation)
       THEN /\ job' = <<[Job EXCEPT !.status = "generating"]>>
            /\ pc' = "call_generate"
            /\ UNCHANGED <<store, trace>>
       ELSE /\ pc' = "phase3"
            /\ UNCHANGED <<job, store, trace>>
    /\ UNCHANGED <<bat, cmb, state_dir, sm>>
    /\ UNCHANGED <<output, audio_dir, max_retries, call, err, ret, log,
                   loaded, succeeded, killed, streak>>

\* Phase 2: mark "generating" and save, or skip
Phase2 ==
    /\ pc = "phase2"
    /\ IF NeedsGeneration(Job, call.skip_generation)
       THEN /\ job' = <<[Job EXCEPT !.status = "generating"]>>
            /\ store' = save_state(store, job'[1])
            /\ trace' = Append(trace, "save")
            /\ pc' = "call_generate"
       ELSE /\ pc' = "phase3"
            /\ UNCHANGED <<job, store, trace>>
    /\ UNCHANGED <<bat, cmb, state_dir, sm>>
    /\ UNCHANGED <<output, audio_dir, max_retries, call, err, ret, log,
                   loaded, succeeded, killed, streak>>

\* generate_audiobooks_kokoro(...) is called
GenerateCall ==
    /\ pc = "call_generate"
    /\ pc' = "in_generate"
    /\ trace' = Append(trace, "generate")
    /\ UNCHANGED <<bat, cmb, state_dir, sm>>
    /\ UNCHANGED <<store, output, audio_dir, max_retries, call, job, err, ret,
                   log, loaded, succeeded, killed, streak>>

\* generate_audiobooks_kokoro returns, having populated the audio directory
GenerateReturn ==
    /\ pc = "in_generate"
    /\ pc' = "done_generate"
    /\ \E d \in SynthDirs : audio_dir' = [audio_dir EXCEPT ![BaseName] = d]
    /\ succeeded' = [succeeded EXCEPT ![BaseName] = @ \cup {"generation"}]
    /\ UNCHANGED <<bat, cmb, state_dir, sm>>
    /\ UNCHANGED <<store, output, max_retries, call, job, err, ret, log,
                   trace, loaded, killed, streak>>

\* generate_audiobooks_kokoro raises, leaving whatever it wrote so far
GenerateRaise ==
    /\ pc = "in_generate"
    /\ pc' = "except"
    /\ err' = "collaborator error"
    /\ \E d \in SynthDirs : audio_dir' = [audio_dir EXCEPT ![BaseName] = d]
    /\ UNCHANGED <<bat, cmb, state_dir, sm>>
    /\ UNCHANGED <<store, output, max_retries, call, job, ret, log, trace,
                   loaded, succeeded, killed, streak>>

\* job.generation_done = True; save
Phase2Done ==
    /\ pc = "done_generate"
    /\ job' = <<[Job EXCEPT !.generation_done = TRUE]>>
    /\ store' = save_state(store, job'[1])
    /\ trace' = Append(trace, "save")
    /\ pc' = "phase3"
    /\ UNCHANGED <<bat, cmb, state_dir, sm>>
    /\ UNCHANGED <<output, audio_dir, max_retries, call, err, ret, log,
                   loaded, succeeded, killed, streak>>

\* mutant: phase 3 marks the job with the status of phase 1
Phase3_MarksExtracting ==
    /\ pc = "phase3"
    /\ IF NeedsCombination(Job)
       THEN /\ job' = <<[Job EXCEPT !.status = "extracting"]>>
            /\ store' = save_state(store, job'[1])
            /\ trace' = Append(trace, "save")
            /\ pc' = "call_combine"
       ELSE /\ pc' = "cleanup"
            /\ UNCHANGED <<job, store, trace>>
    /\ UNCHANGED <<bat, cmb, state_dir, sm>>
    /\ UNCHANGED <<output, audio_dir, max_retries, call, err, ret, log,
                   loaded, succeeded, killed, streak>>

\* Phase 3: mark "combining" and save, or skip to the cleanup
Phase3 ==
    /\ pc = "phase3"
    /\ IF NeedsCombination(Job)
       THEN /\ job' = <<[Job EXCEPT !.status = "combining"]>>
            /\ store' = save_state(store, job'[1])
            /\ trace' = Append(trace, "save")
            /\ pc' = "call_combine"
       ELSE /\ pc' = "cleanup"
            /\ UNCHANGED <<job, store, trace>>
    /\ UNCHANGED <<bat, cmb, state_dir, sm>>
    /\ UNCHANGED <<output, audio_dir, max_retries, call, err, ret, log,
                   loaded, succeeded, killed, streak>>

\* self.audio_combiner.combine_audio_files(audio_dir, output_path) is called
CombineCall ==
    /\ pc = "call_combine"
    /\ pc' = "in_combine"
    /\ trace' = Append(trace, "combine")
    /\ UNCHANGED <<bat, cmb, state_dir, sm>>
    /\ UNCHANGED <<store, output, audio_dir, max_retries, call, job, err, ret,
                   log, loaded, succeeded, killed, streak>>

\* combine_audio_files returns; "if not success: raise RuntimeError"
CombineReturn ==
    LET r == combine_audio_files(audio_dir[BaseName], output, OutPath,
                                 ProcessorChunkSize)
    IN  /\ pc = "in_combine"
        /\ output' = r.files
        /\ IF r.success
           THEN /\ pc' = "done_combine"
                /\ succeeded' = [succeeded EXCEPT
                                    ![BaseName] = @ \cup {"combination"}]
                /\ err' = err
           ELSE /\ pc' = "except"
                /\ err' = "Audio combination failed"
                /\ succeeded' = succeeded
        /\ UNCHANGED <<bat, cmb, state_dir, sm>>
        /\ UNCHANGED <<store, audio_dir, max_retries, call, job, ret, log,
                       trace, loaded, killed, streak>>

\* mutant: the job is marked completed without its completion flag
Phase3Done_NoFlag ==
    /\ pc = "done_combine"
    /\ job' = <<[Job EXCEPT !.status = "completed",
                            !.completed_at = "now"]>>
    /\ store' = save_state(store, job'[1])
    /\ trace' = Append(trace, "save")
    /\ pc' = "cleanup"
    /\ UNCHANGED <<bat, cmb, state_dir, sm>>
    /\ UNCHANGED <<output, audio_dir, max_retries, call, err, ret, log,
                   loaded, succeeded, killed, streak>>

\* combination_done = True; status = "completed"; completed_at = now; save
Phase3Done ==
    /\ pc = "done_combine"
    /\ job' = <<[Job EXCEPT !.combination_done = TRUE,
                            !.status = "completed",
                            !.completed_at = "now"]>>
    /\ store' = save_state(store, job'[1])
    /\ trace' = Append(trace, "save")
    /\ pc' = "cleanup"
    /\ UNCHANGED <<bat, cmb, state_dir, sm>>
    /\ UNCHANGED <<output, audio_dir, max_retries, call, err, ret, log,
                   loaded, succeeded, killed, streak>>

\* "Cleanup state on success": delete_state, return True
Cleanup ==
    /\ pc = "cleanup"
    /\ trace' = Append(trace, "delete")
    /\ IF UnlinkRaises(store, call.path)
       THEN /\ pc' = "except"
            /\ err' = "unlink failed"
            /\ UNCHANGED <<store, ret, job, streak>>
       ELSE /\ store' = delete_state(store, call.path)
            /\ ret' = "True"
            /\ pc' = "idle"
            /\ job' = NoJob
            /\ streak' = -1
            /\ err' = err
    /\ UNCHANGED <<bat, cmb, state_dir, sm>>
    /\ UNCHANGED <<output, audio_dir, max_retries, call, log, loaded,
                   succeeded, killed>>

\* except Exception: record the failure, save, log, return False
HandleFailure ==
    /\ pc = "except"
    /\ store' = save_state(store, FailedJob(Job, err))
    /\ trace' = Append(trace, "save")
    /\ log' = RetryMessage(FailedJob(Job, err), max_retries)
    /\ ret' = "False"
    /\ pc' = "idle"
    /\ job' = NoJob
    /\ err' = "None"
    /\ streak' = IF streak >= 0 THEN streak + 1 ELSE -1
    /\ UNCHANGED <<bat, cmb, state_dir, sm>>
    /\ UNCHANGED <<output, audio_dir, max_retries, call, loaded, succeeded,
                   killed>>

\* the collaborator running at a position of the invocation
InFlight(position) ==
    CASE position = "in_extract"  -> "extract"
      [] position = "in_generate" -> "generate"
      [] position = "in_combine"  -> "combine"
      [] OTHER                    -> "none"

\* the process is killed during an invocation: the locals are lost, the
\* files stay as they are, and a collaborator is cut off where it was
Kill ==
    /\ pc # "idle"
    /\ pc' = "idle"
    /\ ret' = "killed"
    /\ job' = NoJob
    /\ err' = "None"
    /\ killed' = InFlight(pc)
    /\ streak' = -1
    /\ IF pc = "in_combine"
       THEN output' \in KilledCombineFiles(audio_dir[BaseName], output,
                                           OutPath, ProcessorChunkSize)
       ELSE output' = output
    /\ IF pc = "in_generate"
       THEN \E d \in SynthDirs : audio_dir' = [audio_dir EXCEPT ![BaseName] = d]
       ELSE audio_dir' = audio_dir
    /\ UNCHANGED <<bat, cmb, state_dir, sm>>
    /\ UNCHANGED <<store, max_retries, call, log, trace, loaded, succeeded>>

(* ------------------------------ behaviours ----------------------------- *)

\* the retry limits the processor is constructed with
TestMaxRetries == 2
RetryLimits == {TestMaxRetries, DefaultMaxRetries}

\* no process_batch call and no stepwise combine is in progress
NoBatch == [pc |-> "none"]
NoCombine == [pc |-> "none"]
\* no StateManager operation was made by a direct caller
NoStoreCall == [op |-> "none"]

\* an output that was there before: absent, zero bytes, or some bytes
ForeignFile == [header |-> FALSE, rate |-> 0, frames |-> <<0>>]
InitialOutputs ==
    UNION {[ps -> {EmptyFile, ForeignFile}]
           : ps \in SUBSET {OutputPath(p) : p \in Paths}}

Init ==
    /\ store = EmptyMap
    /\ output \in InitialOutputs
    /\ audio_dir = [s \in Stems |-> EmptyMap]
    /\ max_retries \in RetryLimits
    /\ pc = "idle"
    /\ call = [path |-> CHOOSE p \in Paths : TRUE, resume |-> TRUE,
               skip_extraction |-> FALSE, skip_generation |-> FALSE]
    /\ job = NoJob
    /\ err = "None"
    /\ ret = "none"
    /\ log = "none"
    /\ trace = <<>>
    /\ loaded = <<>>
    /\ succeeded = [s \in Stems |-> {}]
    /\ killed = "none"
    /\ streak = -1
    /\ bat = NoBatch
    /\ cmb = NoCombine
    /\ state_dir = "present"
    /\ sm = NoStoreCall

Invoke ==
    /\ \E p \in Paths, resume \in BOOLEAN,
          skip_extraction \in BOOLEAN, skip_generation \in BOOLEAN :
           Enter(p, resume, skip_extraction, skip_generation)
    /\ UNCHANGED <<bat, cmb, state_dir, sm>>

Next ==
    \/ Invoke
    \/ Phase1 \/ ExtractCall \/ ExtractReturn \/ ExtractRaise \/ Phase1Done
    \/ Phase2 \/ GenerateCall \/ GenerateReturn \/ GenerateRaise \/ Phase2Done
    \/ Phase3 \/ CombineCall \/ CombineReturn \/ Phase3Done
    \/ Cleanup
    \/ HandleFailure
    \/ Kill

Spec == Init /\ [][Next]_vars

(* --------------------------- process_batch ----------------------------- *)

\* the inputs of a batch: <tmpdir>/test0.pdf, test1.pdf, test2.pdf
BatchStems == {"test0", "test1", "test2"}
BatchPaths == [dir : {"/tmp"}, stem : BatchStems]

\* the input lists: every list of at most MaxBatch inputs
BatchLists == UNION {[1..n -> BatchPaths] : n \in 0..MaxBatch}

\* stats = {"total": len(input_paths), "completed": 0, "failed": 0, ...}
InitialStats(input_paths) ==
    [total |-> Len(input_paths), completed |-> 0, failed |-> 0,
     skipped |-> 0, started_at |-> "now", completed_at |-> "None"]

\* the locals of process_batch on entry, with the history of the calls of
\* process_pdf it made and how each ended
EnterBatch(input_paths, resume, continue_on_error) ==
    [pc |-> "loop", inputs |-> input_paths, resume |-> resume,
     continue_on_error |-> continue_on_error, i |-> 1,
     stats |-> InitialStats(input_paths), calls |-> <<>>, results |-> <<>>]

\* mutant: a failed item never stops the batch
AfterFailure_NeverStops(b) == [b EXCEPT !.pc = "loop", !.i = b.i + 1]

\* "if not continue_on_error: break", else on to the next item
AfterFailure(b) ==
    IF b.continue_on_error
    THEN [b EXCEPT !.pc = "loop", !.i = b.i + 1]
    ELSE [b EXCEPT !.pc = "summary", !.stats.completed_at = "now"]

\* mutant: the except branch of the loop does not count the item
CountRaised_NotCounted(b) == [b EXCEPT !.results = Append(b.results, "raised")]

\* except Exception: stats["failed"] += 1
CountRaised(b) ==
    [b EXCEPT !.stats.failed = b.stats.failed + 1,
              !.results = Append(b.results, "raised")]

\* success = self.process_pdf(pdf_path, voice_override, resume) is called
BatchCallItem ==
    /\ bat.pc = "loop" /\ pc = "idle"
    /\ bat.i <= Len(bat.inputs)
    /\ Enter(bat.inputs[bat.i], bat.resume, FALSE, FALSE)
    /\ bat' = [bat EXCEPT !.pc = "item",
                          !.calls = Append(bat.calls, bat.inputs[bat.i])]
    /\ UNCHANGED <<cmb, state_dir, sm>>

\* process_pdf raises ahead of its try block (resolve, stat, config), which
\* changes no file; the loop's except branch counts the item as failed
BatchItemRaises ==
    /\ bat.pc = "loop" /\ pc = "idle"
    /\ bat.i <= Len(bat.inputs)
    /\ bat' = AfterFailure(CountRaised(
                 [bat EXCEPT !.calls = Append(bat.calls, bat.inputs[bat.i])]))
    /\ UNCHANGED <<store, output, audio_dir, max_retries, pc, call, job, err,
                   ret, log, trace, loaded, succeeded, killed, streak, cmb,
                   state_dir, sm>>

\* process_pdf returned: "if success: completed += 1, else: failed += 1"
BatchCollect ==
    /\ bat.pc = "item" /\ pc = "idle"
    /\ IF ret = "True"
       THEN bat' = [bat EXCEPT !.pc = "loop", !.i = bat.i + 1,
                               !.stats.completed = bat.stats.completed + 1,
                               !.results = Append(bat.results, "True")]
       ELSE bat' = AfterFailure(
                      [bat EXCEPT !.stats.failed = bat.stats.failed + 1,
                                  !.results = Append(bat.results, "False")])
    /\ UNCHANGED <<store, output, audio_dir, max_retries, pc, call, job, err,
                   ret, log, trace, loaded, succeeded, killed, streak, cmb,
                   state_dir, sm>>

\* the for loop is exhausted: stats["completed_at"] = now
BatchLoopEnd ==
    /\ bat.pc = "loop" /\ pc = "idle"
    /\ bat.i > Len(bat.inputs)
    /\ bat' = [bat EXCEPT !.pc = "summary", !.stats.completed_at = "now"]
    /\ UNCHANGED <<store, output, audio_dir, max_retries, pc, call, job, err,
                   ret, log, trace, loaded, succeeded, killed, streak, cmb,
                   state_dir, sm>>

\* the summary: stats['completed'] / stats['total'] raises ZeroDivisionError
\* when total is 0; otherwise return stats
BatchSummary ==
    /\ bat.pc = "summary"
    /\ bat' = [bat EXCEPT !.pc = IF bat.stats.total = 0
                                 THEN "raised" ELSE "returned"]
    /\ UNCHANGED <<store, output, audio_dir, max_retries, pc, call, job, err,
                   ret, log, trace, loaded, succeeded, killed, streak, cmb,
                   state_dir, sm>>

\* a processor on a fresh state directory; some outputs are there already
BatchInitialOutputs ==
    UNION {[ps -> {ForeignFile}]
           : ps \in SUBSET {OutputPath(p) : p \in BatchPaths}}

InitBatch ==
    /\ store = EmptyMap
    /\ output \in BatchInitialOutputs
    /\ audio_dir = [s \in BatchStems |-> EmptyMap]
    /\ max_retries = DefaultMaxRetries
    /\ pc = "idle"
    /\ call = [path |-> CHOOSE p \in BatchPaths : TRUE, resume |-> TRUE,
               skip_extraction |-> FALSE, skip_generation |-> FALSE]
    /\ job = NoJob
    /\ err = "None"
    /\ ret = "none"
    /\ log = "none"
    /\ trace = <<>>
    /\ loaded = <<>>
    /\ succeeded = [s \in BatchStems |-> {}]
    /\ killed = "none"
    /\ streak = -1
    /\ \E input_paths \in BatchLists, resume \in BOOLEAN,
          continue_on_error \in BOOLEAN :
           bat = EnterBatch(input_paths, resume, continue_on_error)
    /\ cmb = NoCombine
    /\ state_dir = "present"
    /\ sm = NoStoreCall

NextBatch ==
    \/ BatchCallItem \/ BatchItemRaises \/ BatchCollect
    \/ BatchLoopEnd \/ BatchSummary
    \/ Phase1 \/ ExtractCall \/ ExtractReturn \/ ExtractRaise \/ Phase1Done
    \/ Phase2 \/ GenerateCall \/ GenerateReturn \/ GenerateRaise \/ Phase2Done
    \/ Phase3 \/ CombineCall \/ CombineReturn \/ Phase3Done
    \/ Cleanup
    \/ HandleFailure

SpecBatch == InitBatch /\ [][NextBatch]_vars

(* ------------------ combine_audio_files, step by step ------------------ *)

\* the group sizes an AudioCombiner is built with: small ones and the
\* processor's own
ChunkSizes == (1..MaxChunkSize) \cup {ProcessorChunkSize}

\* the samples of segment n: one frame for odd n, two for even n, each
\* frame tagged with the segment it comes from
SegmentFrames(n) == IF n % 2 = 1 THEN <<n>> ELSE <<n, n>>

\* what can be wrong with a segment file: another sample rate, a header
\* sf.info cannot read (missing or corrupt file), data sf.read cannot decode
SegmentKinds == {"good", "rate", "header", "data"}
Segment(n, kind) ==
    [rate      |-> IF kind = "rate" THEN Rate22k ELSE Rate24k,
     data      |-> SegmentFrames(n),
     header_ok |-> kind # "header",
     data_ok   |-> kind # "data"]

\* the segment directories: any files named 1..MaxFiles, at most MaxFaults
\* of them not good
CombineDirs ==
    UNION {{[n \in names |-> Segment(n, kinds[n])]
            : kinds \in {f \in [names -> SegmentKinds] :
                           Cardinality({n \in names : f[n] # "good"})
                               <= MaxFaults}}
           : names \in SUBSET (1..MaxFiles)}

\* the directory and the output path the combiner is called with
CombineStem == CHOOSE s \in Stems : TRUE
CombinePath == OutputPath(CHOOSE p \in Paths : TRUE)

\* the locals of combine_audio_files on entry, with the history of what it
\* decoded, the groups it formed and the progress calls it made
EnterCombine(chunk_size, progress_callback, files_before) ==
    [pc |-> "glob", chunk_size |-> chunk_size,
     progress_callback |-> progress_callback,
     audio_files |-> <<>>, sr |-> <<>>, total_samples |-> 0, i |-> 0,
     chunk_files |-> <<>>, chunk_data |-> <<>>, combined_chunk |-> <<>>,
     ret |-> "none", failed_in |-> "none",
     progress |-> <<>>, decoded |-> <<>>, groups |-> <<>>,
     before |-> files_before]

\* combine_audio_files touches only its locals and the output file
CombineOnly ==
    UNCHANGED <<store, audio_dir, max_retries, pc, call, job, err, ret, log,
                trace, loaded, succeeded, killed, streak, bat, state_dir, sm>>

\* an exception inside the try block: control goes to the except clause
Raise(c, where) == [c EXCEPT !.pc = "except", !.failed_in = where]

\* audio_files = sorted(audio_dir.glob("*.wav")); no file: return False
CombineGlob ==
    /\ cmb.pc = "glob"
    /\ LET audio_files == AudioFiles(audio_dir[CombineStem])
       IN  cmb' = IF Len(audio_files) = 0
                  THEN [cmb EXCEPT !.pc = "returned", !.ret = "False",
                                   !.failed_in = "glob"]
                  ELSE [cmb EXCEPT !.pc = "info",
                                   !.audio_files = audio_files]
    /\ output' = output
    /\ CombineOnly

\* mutant: the first pass does not compare sample rates
InfoRaises_NoRateCheck(f, sr) == ~f.header_ok

\* sf.info raises on an unreadable file; the rate check raises ValueError
InfoRaises(f, sr) == ~f.header_ok \/ (sr # <<>> /\ f.rate # sr[1])

\* first pass, one file: sr from the first file, total_samples += frames
CombineInfo ==
    /\ cmb.pc = "info" /\ cmb.i < Len(cmb.audio_files)
    /\ LET f == cmb.audio_files[cmb.i + 1]
       IN  cmb' = IF InfoRaises(f, cmb.sr)
                  THEN Raise(cmb, "preflight")
                  ELSE [cmb EXCEPT
                          !.sr = IF cmb.sr = <<>> THEN <<f.rate>> ELSE cmb.sr,
                          !.total_samples = cmb.total_samples + Len(f.data),
                          !.i = cmb.i + 1]
    /\ output' = output
    /\ CombineOnly

\* the first pass is over: sf.SoundFile(output_path, 'w', sr, channels=1)
CombineOpen ==
    /\ cmb.pc = "info" /\ cmb.i = Len(cmb.audio_files)
    /\ output' = Put(output, CombinePath,
                     [header |-> TRUE, rate |-> cmb.sr[1], frames |-> <<>>])
    /\ cmb' = [cmb EXCEPT !.pc = "loop", !.i = 0]
    /\ CombineOnly

\* opening the output raises (I/O error): no file, or one of zero bytes
CombineOpenFails ==
    /\ cmb.pc = "info" /\ cmb.i = Len(cmb.audio_files)
    /\ output' \in {output, Put(output, CombinePath, EmptyFile)}
    /\ cmb' = Raise(cmb, "open")
    /\ CombineOnly

\* mutant: the loop moves on by one file, whatever the group size
NextOffset_ByOne(i, chunk_size) == i + 1

\* range(0, len(audio_files), chunk_size): the offset of the next group
NextOffset(i, chunk_size) == i + chunk_size

\* mutant: progress is reported with a one-based position
ProgressArgs_OneBased(i, total) == <<i + 1, total>>

\* progress_callback(i, len(audio_files))
ProgressArgs(i, total) == <<i, total>>

\* the next group: chunk_files = audio_files[i:i + chunk_size]
CombineNextChunk ==
    /\ cmb.pc = "loop" /\ cmb.i < Len(cmb.audio_files)
    /\ LET chunk_files == ChunkFiles(cmb.audio_files, cmb.i, cmb.chunk_size)
       IN  cmb' = [cmb EXCEPT
                     !.chunk_files = chunk_files,
                     !.groups = Append(cmb.groups, chunk_files),
                     !.pc = IF cmb.progress_callback
                            THEN "callback" ELSE "decode",
                     !.chunk_data = IF cmb.progress_callback
                                    THEN cmb.chunk_data ELSE <<>>]
    /\ output' = output
    /\ CombineOnly

\* the callback returns; chunk_data = []
CombineProgress ==
    /\ cmb.pc = "callback"
    /\ cmb' = [cmb EXCEPT
                 !.progress = Append(cmb.progress,
                                 ProgressArgs(cmb.i, Len(cmb.audio_files))),
                 !.pc = "decode", !.chunk_data = <<>>]
    /\ output' = output
    /\ CombineOnly

\* the callback raises
CombineProgressRaises ==
    /\ cmb.pc = "callback"
    /\ cmb' = Raise([cmb EXCEPT
                       !.progress = Append(cmb.progress,
                                  ProgressArgs(cmb.i, Len(cmb.audio_files)))],
                    "stream")
    /\ output' = output
    /\ CombineOnly

\* data, _ = sf.read(audio_file); chunk_data.append(data)
CombineRead ==
    /\ cmb.pc = "decode" /\ Len(cmb.chunk_data) < Len(cmb.chunk_files)
    /\ LET f == cmb.chunk_files[Len(cmb.chunk_data) + 1]
       IN  cmb' = IF ~f.data_ok
                  THEN Raise(cmb, "stream")
                  ELSE [cmb EXCEPT
                          !.chunk_data = Append(cmb.chunk_data, f.data),
                          !.decoded = Append(cmb.decoded, f.data)]
    /\ output' = output
    /\ CombineOnly

\* np.concatenate(chunk_data) if len(chunk_data) > 1 else chunk_data[0]
RECURSIVE np_concatenate(_)
np_concatenate(chunk_data) ==
    IF Len(chunk_data) = 1 THEN chunk_data[1]
    ELSE chunk_data[1] \o np_concatenate(Tail(chunk_data))

\* the whole group is decoded: combined_chunk = ...
CombineConcatenate ==
    /\ cmb.pc = "decode" /\ Len(cmb.chunk_data) = Len(cmb.chunk_files)
    /\ cmb' = [cmb EXCEPT !.pc = "write",
                 !.combined_chunk = <<np_concatenate(cmb.chunk_data)>>]
    /\ output' = output
    /\ CombineOnly

\* mutant: the group's buffers are kept after the write
CombineWrite_NoRelease ==
    /\ cmb.pc = "write"
    /\ output' = [output EXCEPT ![CombinePath].frames =
                                    @ \o cmb.combined_chunk[1]]
    /\ cmb' = [cmb EXCEPT !.pc = "loop",
                 !.i = NextOffset(cmb.i, cmb.chunk_size)]
    /\ CombineOnly

\* outfile.write(combined_chunk); del chunk_data, combined_chunk
CombineWrite ==
    /\ cmb.pc = "write"
    /\ output' = [output EXCEPT ![CombinePath].frames =
                                    @ \o cmb.combined_chunk[1]]
    /\ cmb' = [cmb EXCEPT !.pc = "loop",
                 !.i = NextOffset(cmb.i, cmb.chunk_size),
                 !.chunk_data = <<>>, !.combined_chunk = <<>>]
    /\ CombineOnly

\* outfile.write raises (I/O error) after any part of the buffer went out
CombineWriteFails ==
    /\ cmb.pc = "write"
    /\ \E k \in 0..Len(cmb.combined_chunk[1]) - 1 :
          output' = [output EXCEPT ![CombinePath].frames =
                                  @ \o SubSeq(cmb.combined_chunk[1], 1, k)]
    /\ cmb' = Raise(cmb, "stream")
    /\ CombineOnly

\* the loop is exhausted: the output is closed, return True
CombineClose ==
    /\ cmb.pc = "loop" /\ cmb.i >= Len(cmb.audio_files)
    /\ cmb' = [cmb EXCEPT !.pc = "returned", !.ret = "True"]
    /\ output' = output
    /\ CombineOnly

\* mutant: the exception goes on to the caller
CombineExcept_Reraises ==
    /\ cmb.pc = "except"
    /\ cmb' = [cmb EXCEPT !.pc = "raised", !.ret = "raised",
                 !.chunk_data = <<>>, !.combined_chunk = <<>>]
    /\ output' = output
    /\ CombineOnly

\* except Exception: log the error, return False
CombineExcept ==
    /\ cmb.pc = "except"
    /\ cmb' = [cmb EXCEPT !.pc = "returned", !.ret = "False",
                 !.chunk_data = <<>>, !.combined_chunk = <<>>]
    /\ output' = output
    /\ CombineOnly

\* an AudioCombiner of some group size is called on some directory, with or
\* without a progress callback; the output path is free or taken
InitCombine ==
    /\ store = EmptyMap
    /\ output \in {EmptyMap, Put(EmptyMap, CombinePath, ForeignFile)}
    /\ audio_dir \in [Stems -> CombineDirs]
    /\ max_retries = DefaultMaxRetries
    /\ pc = "idle"
    /\ call = [path |-> CHOOSE p \in Paths : TRUE, resume |-> TRUE,
               skip_extraction |-> FALSE, skip_generation |-> FALSE]
    /\ job = NoJob
    /\ err = "None"
    /\ ret = "none"
    /\ log = "none"
    /\ trace = <<>>
    /\ loaded = <<>>
    /\ succeeded = [s \in Stems |-> {}]
    /\ killed = "none"
    /\ streak = -1
    /\ bat = NoBatch
    /\ \E chunk_size \in ChunkSizes, progress_callback \in BOOLEAN :
          cmb = EnterCombine(chunk_size, progress_callback, output)
    /\ state_dir = "present"
    /\ sm = NoStoreCall

NextCombine ==
    \/ CombineGlob \/ CombineInfo \/ CombineOpen \/ CombineOpenFails
    \/ CombineNextChunk \/ CombineProgress \/ CombineProgressRaises
    \/ CombineRead \/ CombineConcatenate \/ CombineWrite \/ CombineWriteFails
    \/ CombineClose \/ CombineExcept

SpecCombine == InitCombine /\ [][NextCombine]_vars

(* --------------- process_pdf on a failing state directory -------------- *)

\* the state directory stops working (permissions, read-only file system):
\* from now on open() and unlink() raise
DiskFault ==
    /\ state_dir = "present"
    /\ state_dir' = "faulty"
    /\ UNCHANGED <<store, output, audio_dir, max_retries, pc, call, job, err,
                   ret, log, trace, loaded, succeeded, killed, streak, bat,
                   cmb, sm>>

\* process_pdf(input_path, resume=...) with both skip toggles off
InvokePlain ==
    /\ \E p \in Paths, resume \in BOOLEAN : Enter(p, resume, FALSE, FALSE)
    /\ UNCHANGED <<bat, cmb, state_dir, sm>>

NextFaulty ==
    \/ InvokePlain \/ DiskFault
    \/ Phase1 \/ ExtractCall \/ ExtractReturn \/ ExtractRaise \/ Phase1Done
    \/ Phase2 \/ GenerateCall \/ GenerateReturn \/ GenerateRaise \/ Phase2Done
    \/ Phase3 \/ CombineCall \/ CombineReturn \/ Phase3Done
    \/ Cleanup
    \/ HandleFailure

SpecFaulty == Init /\ [][NextFaulty]_vars

\* process_pdf with every argument, kills, and a state directory that may
\* stop working
NextFull == Next \/ DiskFault

SpecFull == Init /\ [][NextFull]_vars

(* -------------------- StateManager, called directly -------------------- *)

\* input paths handed to the StateManager: /path/to/book.pdf,
\* /other/path/book.pdf, and other names and suffixes
StoreDirs == {"/path/to", "/other/path"}
StoreStems == {"book", "other"}
StorePaths ==
    [dir : StoreDirs, stem : StoreStems, suffix : {".pdf"}]
        \cup {[dir |-> "/path/to", stem |-> "book", suffix |-> ".epub"]}

\* the records saved: a new job, and one that failed once
StoreRecords ==
    {FreshJob(p) : p \in StorePaths}
        \cup {[FreshJob(p) EXCEPT !.status = "failed",
                                  !.error = "collaborator error",
                                  !.extraction_done = TRUE,
                                  !.retry_count = 1] : p \in StorePaths}

\* a state file written by hand: a JSON object with the required keys only
PartialDoc(p) ==
    [input_path |-> p, output_path |-> OutputPath(p), status |-> "pending"]

\* no operation made yet; shadow is the map the operations made so far
\* without I/O failure define: job id -> record
NoOperation ==
    [op |-> "none", arg |-> CHOOSE p \in StorePaths : TRUE, job |-> <<>>,
     result |-> <<>>, raised |-> FALSE, dir_at_call |-> "present",
     shadow |-> EmptyMap]

\* a direct caller touches the state directory only
StoreOnly ==
    UNCHANGED <<output, audio_dir, max_retries, pc, call, job, err, ret, log,
                trace, loaded, succeeded, killed, streak, bat, cmb>>

\* StateManager(state_dir): self.state_dir.mkdir(exist_ok=True)
StoreConstruct ==
    /\ state_dir = "missing"
    /\ state_dir' = "present"
    /\ sm' = [sm EXCEPT !.op = "init", !.dir_at_call = state_dir]
    /\ store' = store
    /\ StoreOnly

\* state_manager.save_state(job)
StoreSave ==
    /\ \E j \in StoreRecords :
          /\ store' = save_state(store, j)
          /\ sm' = [sm EXCEPT
                      !.op = "save", !.arg = j.input_path, !.job = <<j>>,
                      !.raised = FALSE, !.dir_at_call = state_dir,
                      !.shadow = IF state_dir = "present"
                                 THEN Put(sm.shadow, j.input_path.stem, j)
                                 ELSE sm.shadow]
    /\ state_dir' = state_dir
    /\ StoreOnly

\* state_manager.load_state(input_path)
StoreLoad ==
    /\ \E p \in StorePaths :
          sm' = [sm EXCEPT !.op = "load", !.arg = p,
                           !.result = load_state(store, p),
                           !.raised = FALSE, !.dir_at_call = state_dir]
    /\ UNCHANGED <<store, state_dir>>
    /\ StoreOnly

\* state_manager.delete_state(input_path)
StoreDelete ==
    /\ \E p \in StorePaths :
          /\ store' = IF UnlinkRaises(store, p) THEN store
                      ELSE delete_state(store, p)
          /\ sm' = [sm EXCEPT
                      !.op = "delete", !.arg = p,
                      !.raised = UnlinkRaises(store, p),
                      !.dir_at_call = state_dir,
                      !.shadow = [id \in DOMAIN sm.shadow \ {p.stem}
                                    |-> sm.shadow[id]]]
    /\ state_dir' = state_dir
    /\ StoreOnly

\* somebody else writes a state file: cut short, or with the required keys
StoreForeignWrite ==
    /\ state_dir = "present"
    /\ \E p \in StorePaths :
          \/ /\ store' = Put(store, get_job_id(p), Malformed)
             /\ sm' = [sm EXCEPT
                         !.op = "foreign",
                         !.shadow = [id \in DOMAIN sm.shadow \ {p.stem}
                                       |-> sm.shadow[id]]]
          \/ /\ store' = Put(store, get_job_id(p), PartialDoc(p))
             /\ sm' = [sm EXCEPT
                         !.op = "foreign",
                         !.shadow = Put(sm.shadow, p.stem,
                                        [FreshJob(p) EXCEPT
                                            !.started_at = "None"])]
    /\ state_dir' = state_dir
    /\ StoreOnly

\* somebody removes the state directory with everything in it
StoreDirRemoved ==
    /\ state_dir = "present"
    /\ state_dir' = "missing"
    /\ store' = EmptyMap
    /\ sm' = [sm EXCEPT !.op = "foreign", !.shadow = EmptyMap]
    /\ StoreOnly

\* a StateManager was constructed on a new state directory
InitStore ==
    /\ store = EmptyMap
    /\ output = EmptyMap
    /\ audio_dir = [s \in Stems |-> EmptyMap]
    /\ max_retries = DefaultMaxRetries
    /\ pc = "idle"
    /\ call = [path |-> CHOOSE p \in Paths : TRUE, resume |-> TRUE,
               skip_extraction |-> FALSE, skip_generation |-> FALSE]
    /\ job = NoJob
    /\ err = "None"
    /\ ret = "none"
    /\ log = "none"
    /\ trace = <<>>
    /\ loaded = <<>>
    /\ succeeded = [s \in Stems |-> {}]
    /\ killed = "none"
    /\ streak = -1
    /\ bat = NoBatch
    /\ cmb = NoCombine
    /\ state_dir = "present"
    /\ sm = NoOperation

NextStore ==
    \/ StoreConstruct \/ StoreSave \/ StoreLoad \/ StoreDelete
    \/ StoreForeignWrite \/ StoreDirRemoved

SpecStore == InitStore /\ [][NextStore]_vars

(* ---------------- process_pdf on inputs of the same name --------------- *)

\* two inputs with the same stem in different directories; they share the
\* state file and the directory cwd/audiobooks/<stem>
SharedPaths == [dir : StoreDirs, stem : Stems]

\* process_pdf(input_path, resume=...) for one of the two inputs
InvokeShared ==
    /\ \E p \in SharedPaths, resume \in BOOLEAN :
          Enter(p, resume, FALSE, FALSE)
    /\ UNCHANGED <<bat, cmb, state_dir, sm>>

\* a new processor; no output is there yet
InitShared ==
    /\ store = EmptyMap
    /\ output = EmptyMap
    /\ audio_dir = [s \in Stems |-> EmptyMap]
    /\ max_retries = DefaultMaxRetries
    /\ pc = "idle"
    /\ call = [path |-> CHOOSE p \in SharedPaths : TRUE, resume |-> TRUE,
               skip_extraction |-> FALSE, skip_generation |-> FALSE]
    /\ job = NoJob
    /\ err = "None"
    /\ ret = "none"
    /\ log = "none"
    /\ trace = <<>>
    /\ loaded = <<>>
    /\ succeeded = [s \in Stems |-> {}]
    /\ killed = "none"
    /\ streak = -1
    /\ bat = NoBatch
    /\ cmb = NoCombine
    /\ state_dir = "present"
    /\ sm = NoStoreCall

NextShared ==
    \/ InvokeShared
    \/ Phase1 \/ ExtractCall \/ ExtractReturn \/ ExtractRaise \/ Phase1Done
    \/ Phase2 \/ GenerateCall \/ GenerateReturn \/ GenerateRaise \/ Phase2Done
    \/ Phase3 \/ CombineCall \/ CombineReturn \/ Phase3Done
    \/ Cleanup
    \/ HandleFailure
    \/ Kill

SpecShared == InitShared /\ [][NextShared]_vars

(* ------------------ process_pdf re-invoked by its caller --------------- *)

\* the caller invokes process_pdf again for the same input, resume on
InvokeRetry ==
    /\ \E p \in Paths : Enter(p, TRUE, FALSE, FALSE)
    /\ UNCHANGED <<bat, cmb, state_dir, sm>>

\* a new processor; no record and no output is there yet
InitRetry ==
    /\ store = EmptyMap
    /\ output = EmptyMap
    /\ audio_dir = [s \in Stems |-> EmptyMap]
    /\ max_retries = DefaultMaxRetries
    /\ pc = "idle"
    /\ call = [path |-> CHOOSE p \in Paths : TRUE, resume |-> TRUE,
               skip_extraction |-> FALSE, skip_generation |-> FALSE]
    /\ job = NoJob
    /\ err = "None"
    /\ ret = "none"
    /\ log = "none"
    /\ trace = <<>>
    /\ loaded = <<>>
    /\ succeeded = [s \in Stems |-> {}]
    /\ killed = "none"
    /\ streak = -1
    /\ bat = NoBatch
    /\ cmb = NoCombine
    /\ state_dir = "present"
    /\ sm = NoStoreCall

NextRetry ==
    \/ InvokeRetry
    \/ Phase1 \/ ExtractCall \/ ExtractReturn \/ ExtractRaise \/ Phase1Done
    \/ Phase2 \/ GenerateCall \/ GenerateReturn \/ GenerateRaise \/ Phase2Done
    \/ Phase3 \/ CombineCall \/ CombineReturn \/ Phase3Done
    \/ Cleanup
    \/ HandleFailure
    \/ Kill

\* the program keeps running and the caller keeps invoking
SpecRetry == InitRetry /\ [][NextRetry]_vars /\ WF_vars(NextRetry)

(* ------------------------------- claims -------------------------------- *)

JobId == get_job_id(call.path)
\* the invocation in progress resumed from a record it loaded
Resumed == call.resume /\ loaded # <<>>
\* the positions of an invocation that lie after each phase
AfterPhase1 == {"phase2", "call_generate", "in_generate", "done_generate",
                "phase3", "call_combine", "in_combine", "done_combine",
                "cleanup"}
AfterPhase2 == {"phase3", "call_combine", "in_combine", "done_combine",
                "cleanup"}
AfterPhase3 == {"cleanup"}

\* C1: an invocation made while the output file exists with size > 0 returns
\* True at once, calls no collaborator, performs no load, save or delete on
\* the state store and changes no file; so repeating it changes nothing.
C1_Shortcut ==
    [][(pc = "idle" /\ OutputNonEmpty(output, OutputPath(call'.path)))
        => /\ pc' = "idle"
           /\ ret' = "True"
           /\ trace' = <<>>
           /\ store' = store
           /\ output' = output
           /\ audio_dir' = audio_dir]_vars

\* a shortcut return on an output that has bytes but is no WAV file
C1_Witness ==
    /\ pc = "idle" /\ ret = "True" /\ trace = <<>>
    /\ OutputNonEmpty(output, OutPath)
    /\ ~output[OutPath].header

\* C2 as stated: in a resumed invocation a phase flagged done in the loaded
\* record never has its collaborator called, and the first phase whose flag
\* is false has its collaborator called.
C2_Original ==
    (pc # "idle" /\ Resumed) =>
        /\ loaded[1].extraction_done => "extract" \notin Range(trace)
        /\ loaded[1].generation_done => "generate" \notin Range(trace)
        /\ loaded[1].combination_done => "combine" \notin Range(trace)
        /\ (~loaded[1].extraction_done /\ pc \in AfterPhase1)
              => "extract" \in Range(trace)
        /\ (loaded[1].extraction_done /\ ~loaded[1].generation_done
            /\ pc \in AfterPhase2)
              => "generate" \in Range(trace)
        /\ (loaded[1].extraction_done /\ loaded[1].generation_done
            /\ ~loaded[1].combination_done /\ pc \in AfterPhase3)
              => "combine" \in Range(trace)

\* C2 (amended): in a resumed invocation a phase flagged done in the loaded
\* record never has its collaborator called, and the first phase whose flag
\* is false and which is not switched off by its skip toggle has its
\* collaborator called.
C2_ResumeExactness ==
    (pc # "idle" /\ Resumed) =>
        /\ loaded[1].extraction_done => "extract" \notin Range(trace)
        /\ loaded[1].generation_done => "generate" \notin Range(trace)
        /\ loaded[1].combination_done => "combine" \notin Range(trace)
        /\ (~loaded[1].extraction_done /\ ~call.skip_extraction
            /\ pc \in AfterPhase1)
              => "extract" \in Range(trace)
        /\ ((loaded[1].extraction_done \/ call.skip_extraction)
            /\ ~loaded[1].generation_done /\ ~call.skip_generation
            /\ pc \in AfterPhase2)
              => "generate" \in Range(trace)
        /\ ((loaded[1].extraction_done \/ call.skip_extraction)
            /\ (loaded[1].generation_done \/ call.skip_generation)
            /\ ~loaded[1].combination_done /\ pc \in AfterPhase3)
              => "combine" \in Range(trace)

\* a resumed invocation runs the Synthesizer on a record with
\* extraction_done = true, generation_done = false, without the Extractor
C2_Witness ==
    /\ pc = "in_generate" /\ Resumed
    /\ loaded[1].extraction_done /\ ~loaded[1].generation_done
    /\ "generate" \in Range(trace) /\ "extract" \notin Range(trace)

\* C3 as stated: when a kill interrupted a collaborator, the next invocation
\* for the same input (resume enabled, same toggles) that returns has called
\* that collaborator again.
C3_Original ==
    (pc = "idle" /\ ret \in {"True", "False"} /\ killed # "none")
        => killed \in Range(trace)

\* the record the invocation in progress started from
StartJob == IF Resumed THEN loaded[1] ELSE FreshJob(call.path)

\* C4: while a collaborator runs, the record persisted for the job is the
\* write-ahead marker of its phase: status names the phase and the phase's
\* completion flag is false; the save came right before the call.
C4_WriteAhead ==
    /\ pc = "in_extract" =>
          /\ JobId \in DOMAIN store
          /\ store[JobId].status = "extracting"
          /\ ~store[JobId].extraction_done
          /\ SubSeq(trace, Len(trace) - 1, Len(trace)) = <<"save", "extract">>
    /\ pc = "in_generate" =>
          /\ JobId \in DOMAIN store
          /\ store[JobId].status = "generating"
          /\ ~store[JobId].generation_done
          /\ SubSeq(trace, Len(trace) - 1, Len(trace)) = <<"save", "generate">>
    /\ pc = "in_combine" =>
          /\ JobId \in DOMAIN store
          /\ store[JobId].status = "combining"
          /\ ~store[JobId].combination_done
          /\ SubSeq(trace, Len(trace) - 1, Len(trace)) = <<"save", "combine">>

\* the Synthesizer runs in a resumed invocation, the marker "generating"
\* persisted over a record that failed before
C4_Witness ==
    /\ pc = "in_generate" /\ Resumed /\ loaded[1].status = "failed"
    /\ store[JobId].status = "generating"

\* C5: a completion flag that is true in the persisted record belongs to a
\* phase whose collaborator has returned successfully; and once a
\* collaborator returned in this invocation, its flag is persisted as true
\* by the time the next collaborator runs.
C5_TrueProgress ==
    /\ \A id \in DOMAIN store :
          /\ store[id].extraction_done => "extraction" \in succeeded[id]
          /\ store[id].generation_done => "generation" \in succeeded[id]
          /\ store[id].combination_done => "combination" \in succeeded[id]
    /\ (pc \in {"in_generate", "in_combine"} /\ "extract" \in Range(trace))
          => store[JobId].extraction_done
    /\ (pc = "in_combine" /\ "generate" \in Range(trace))
          => store[JobId].generation_done

\* after a kill during the Combiner the record shows the two finished phases
C5_Witness ==
    /\ pc = "idle" /\ ret = "killed" /\ killed = "combine"
    /\ JobId \in DOMAIN store
    /\ store[JobId].extraction_done /\ store[JobId].generation_done
    /\ ~store[JobId].combination_done
    /\ succeeded[JobId] = {"extraction", "generation"}

\* C6: a failing collaborator brings the invocation to the failure handler,
\* which returns False; the record persisted then has status failed, the
\* error text, retry_count one above the value the invocation started with,
\* and every completion flag that was true before is still true.
C6_FailureHandling ==
    [][(pc = "except" /\ pc' = "idle" /\ ret' # "killed")
        => /\ ret' = "False"
           /\ err # "None"
           /\ JobId \in DOMAIN store'
           /\ store'[JobId].status = "failed"
           /\ store'[JobId].error = err
           /\ store'[JobId].retry_count = StartJob.retry_count + 1
           /\ \A j \in {StartJob, store[JobId]} :
                 /\ j.extraction_done => store'[JobId].extraction_done
                 /\ j.generation_done => store'[JobId].generation_done
                 /\ j.combination_done => store'[JobId].combination_done]_vars

\* the Combiner failed in a resumed invocation: second failure, the flags of
\* the two finished phases kept
C6_Witness ==
    /\ pc = "idle" /\ ret = "False" /\ Resumed
    /\ store[JobId].status = "failed"
    /\ store[JobId].error = "Audio combination failed"
    /\ store[JobId].retry_count = 2
    /\ store[JobId].extraction_done /\ store[JobId].generation_done

\* C7 as stated: after an invocation that returned True the state store
\* holds no record for the input's identity.
C7_Original ==
    (pc = "idle" /\ ret = "True") => JobId \notin DOMAIN store

\* C8: n consecutive failed invocations with resume enabled, starting with
\* no record, leave retry_count = n and status failed; within a resuming
\* invocation retry_count changes only by +1, in the failure handler.
C8_RetryBookkeeping ==
    /\ []((pc = "idle" /\ ret = "False" /\ streak >= 0)
            => /\ JobId \in DOMAIN store
               /\ store[JobId].retry_count = streak
               /\ store[JobId].status = "failed")
    /\ [][(/\ call'.resume
           /\ JobId \in DOMAIN store /\ JobId \in DOMAIN store'
           /\ store'[JobId].retry_count # store[JobId].retry_count)
          => /\ pc = "except" /\ ret' = "False"
             /\ store'[JobId].retry_count = store[JobId].retry_count + 1]_vars

\* three consecutive failures since there was no record
C8_Witness ==
    /\ pc = "idle" /\ ret = "False" /\ streak = 3
    /\ store[JobId].retry_count = 3 /\ store[JobId].status = "failed"

\* the invocation in progress started at or above the retry limit
OverLimit == Resumed /\ loaded[1].retry_count >= max_retries

C10_MonotonicFlags ==
    [][(call'.resume /\ JobId \in DOMAIN store /\ JobId \in DOMAIN store')
        => /\ store[JobId].extraction_done => store'[JobId].extraction_done
           /\ store[JobId].generation_done => store'[JobId].generation_done
           /\ store[JobId].combination_done
                 => store'[JobId].combination_done]_vars

\* a resumed invocation failed again and the record still carries the flag
\* it had before
C10_Witness ==
    /\ pc = "idle" /\ ret = "False" /\ Resumed
    /\ loaded[1].extraction_done /\ loaded[1].retry_count >= 1
    /\ store[JobId].extraction_done
    /\ store[JobId].retry_count = loaded[1].retry_count + 1

\* C11 as stated: every record process_pdf persists has a status consistent
\* with its flags: a working status names a phase whose flag is false while
\* all earlier phases that are not skipped are done, and completed implies
\* combination_done.
C11_Original ==
    [][(store' # store /\ JobId \in DOMAIN store')
        => LET r == store'[JobId]
           IN  /\ r.status = "extracting" => ~r.extraction_done
               /\ r.status = "generating"
                     => /\ ~r.generation_done
                        /\ r.extraction_done \/ call.skip_extraction
               /\ r.status = "combining"
                     => /\ ~r.combination_done
                        /\ r.extraction_done \/ call.skip_extraction
                        /\ r.generation_done \/ call.skip_generation
               /\ r.status = "completed" => r.combination_done]_vars

\* C11 (amended): as stated, except that the record saved right after the
\* Extractor or the Synthesizer returned still carries that phase's status
\* together with its flag now true.
C11_StatusConsistency ==
    [][(store' # store /\ JobId \in DOMAIN store')
        => LET r == store'[JobId]
           IN  /\ r.status = "extracting"
                     => (~r.extraction_done \/ pc = "done_extract")
               /\ r.status = "generating"
                     => /\ (~r.generation_done \/ pc = "done_generate")
                        /\ r.extraction_done \/ call.skip_extraction
               /\ r.status = "combining"
                     => /\ ~r.combination_done
                        /\ r.extraction_done \/ call.skip_extraction
                        /\ r.generation_done \/ call.skip_generation
               /\ r.status = "completed" => r.combination_done]_vars

\* the record saved after the Synthesizer returned: status generating,
\* generation_done true
C11_Witness ==
    /\ pc = "phase3"
    /\ JobId \in DOMAIN store
    /\ store[JobId].status = "generating"
    /\ store[JobId].generation_done /\ store[JobId].extraction_done

(* ---------------------------- batch claims ----------------------------- *)

\* the loop of process_batch is over
BatchEnded == bat.pc \in {"summary", "returned", "raised"}

\* how many of the calls of process_pdf returned False or raised
Failures(results) ==
    Cardinality({k \in 1..Len(results) : results[k] # "True"})

\* stems of the inputs process_batch never reached
Unreached ==
    {get_job_id(bat.inputs[k]) : k \in Len(bat.calls) + 1..Len(bat.inputs)}
        \ {get_job_id(bat.calls[k]) : k \in 1..Len(bat.calls)}

\* C12: with continue_on_error, process_pdf is called once per input in list
\* order, one call at a time, whether a call returns False or raises; when
\* the loop is over every input was called, total is the length of the list,
\* completed + failed = total and failed counts the calls that returned
\* False or raised.
C12_ContinueOnError ==
    (bat.pc # "none" /\ bat.continue_on_error)
        => /\ bat.calls = SubSeq(bat.inputs, 1, Len(bat.calls))
           /\ Len(bat.calls)
                = Len(bat.results) + (IF bat.pc = "item" THEN 1 ELSE 0)
           /\ bat.pc = "loop" => pc = "idle"
           /\ BatchEnded
                => /\ bat.calls = bat.inputs
                   /\ Len(bat.results) = Len(bat.inputs)
                   /\ bat.stats.total = Len(bat.inputs)
                   /\ bat.stats.completed + bat.stats.failed = bat.stats.total
                   /\ bat.stats.failed = Failures(bat.results)

\* item 2 of 3 failed and the batch went on: total 3, completed 2, failed 1
C12_Witness ==
    /\ bat.pc = "returned" /\ bat.continue_on_error
    /\ bat.results = <<"True", "False", "True">>
    /\ bat.stats.total = 3 /\ bat.stats.completed = 2 /\ bat.stats.failed = 1

\* C13: without continue_on_error the first call that returns False or
\* raises ends the loop: failed is 1, completed is the number of inputs
\* before it, total is the length of the list, the inputs after it are never
\* called and none of them gets a state file, a segment or an output; once
\* the loop is over no collaborator runs and no file changes.
C13_StopOnError ==
    /\ [](  (bat.pc # "none" /\ ~bat.continue_on_error)
            => /\ bat.stats.total = Len(bat.inputs)
               /\ bat.stats.failed <= 1
               /\ bat.stats.failed = Failures(bat.results)
               /\ bat.stats.completed = Len(bat.results) - bat.stats.failed
               /\ bat.stats.failed = 1
                    => /\ BatchEnded
                       /\ bat.results[Len(bat.results)] # "True"
                       /\ Len(bat.calls) = Len(bat.results)
                       /\ bat.stats.completed = Len(bat.calls) - 1
                       /\ \A s \in Unreached :
                            /\ s \notin DOMAIN store
                            /\ audio_dir[s] = EmptyMap
                            /\ succeeded[s] = {}
               /\ (BatchEnded /\ bat.stats.failed = 0)
                    => bat.stats.completed = bat.stats.total )
    /\ [][ (BatchEnded /\ ~bat.continue_on_error)
            => UNCHANGED <<store, output, audio_dir, trace, pc, succeeded>>
         ]_vars

\* the second of three inputs failed and the third was never called
C13_Witness ==
    /\ bat.pc = "returned" /\ ~bat.continue_on_error
    /\ Len(bat.inputs) = 3 /\ Len(bat.calls) = 2
    /\ bat.results = <<"True", "False">>
    /\ Unreached # {}
    /\ bat.stats.total = 3 /\ bat.stats.completed = 1 /\ bat.stats.failed = 1

\* C14 as stated: process_batch never raises to its caller, whatever the
\* input list (the empty list included) and whatever process_pdf does.
C14_Original == bat.pc # "raised"

(* --------------------------- combiner claims --------------------------- *)

\* the sorted segment list of the directory the combiner was called on
Segments == AudioFiles(audio_dir[CombineStem])

\* some segment after the first has another rate than the first
RateMismatch ==
    \E k \in 2..Len(Segments) : Segments[k].rate # Segments[1].rate

\* ceil(n / g)
CeilDiv(n, g) == (n + g - 1) \div g

\* the number of frames of out that come from segment n
FramesFrom(out, n) == Cardinality({k \in 1..Len(out) : out[k] = n})

\* C15: when the directory holds no segment, or a segment after the first
\* has another sample rate than the first (wherever it is in the list),
\* combine_audio_files returns False and the output path is never written:
\* the output files stay what they were before the call.
C15_ValidationNoOutput ==
    (cmb.pc # "none" /\ (Len(Segments) = 0 \/ RateMismatch))
        => /\ output = cmb.before
           /\ cmb.ret # "True"
           /\ cmb.pc = "returned" => cmb.ret = "False"

\* the fourth of four readable segments has another rate; no output is made
C15_Witness ==
    /\ cmb.pc = "returned" /\ cmb.ret = "False"
    /\ Len(Segments) = 4
    /\ \A k \in 1..4 : Segments[k].header_ok /\ Segments[k].data_ok
    /\ \A k \in 1..3 : Segments[k].rate = Rate24k
    /\ Segments[4].rate = Rate22k
    /\ CombinePath \notin DOMAIN output

C17_ChunkingNeutrality ==
    (cmb.pc = "returned" /\ cmb.ret = "True")
        => /\ \A g2 \in ChunkSizes :
                LET other == combine_audio_files(audio_dir[CombineStem],
                                                 cmb.before, CombinePath, g2)
                IN  other.success /\ other.files = output
           /\ Len(cmb.groups) = CeilDiv(Len(Segments), cmb.chunk_size)
           /\ \A k \in 1..Len(cmb.groups) :
                /\ cmb.groups[k]
                     = SubSeq(Segments, (k - 1) * cmb.chunk_size + 1,
                              (k - 1) * cmb.chunk_size + Len(cmb.groups[k]))
                /\ k < Len(cmb.groups)
                     => Len(cmb.groups[k]) = cmb.chunk_size
                /\ k = Len(cmb.groups)
                     => /\ Len(cmb.groups[k]) >= 1
                        /\ Len(cmb.groups[k]) <= cmb.chunk_size
                        /\ (k - 1) * cmb.chunk_size + Len(cmb.groups[k])
                             = Len(Segments)

\* five segments in groups of two: groups of 2, 2 and 1 files
C17_Witness ==
    /\ cmb.pc = "returned" /\ cmb.ret = "True"
    /\ Len(Segments) = 5 /\ cmb.chunk_size = 2
    /\ Len(cmb.groups) = 3
    /\ Len(cmb.groups[1]) = 2 /\ Len(cmb.groups[2]) = 2
    /\ Len(cmb.groups[3]) = 1
    /\ ~cmb.progress_callback

\* C18: with a progress callback, a successful combine of n segments in
\* groups of g calls it ceil(n/g) times, with (0,n), (g,n), (2g,n), ...;
\* each call is made when exactly the files of the earlier groups are
\* decoded, and no file of a group is decoded before the call for it.
C18_ProgressReporting ==
    /\ []( /\ (cmb.pc = "returned" /\ cmb.ret = "True"
                  /\ cmb.progress_callback)
              => cmb.progress
                   = [k \in 1..CeilDiv(Len(Segments), cmb.chunk_size)
                        |-> <<(k - 1) * cmb.chunk_size, Len(Segments)>>]
           /\ (cmb.pc \in {"decode", "write"} /\ cmb.progress_callback)
              => Len(cmb.progress) = Len(cmb.groups) )
    /\ [][ (cmb.pc # "none" /\ cmb'.progress # cmb.progress)
             => /\ cmb'.progress
                     = Append(cmb.progress,
                              <<Len(cmb.decoded), Len(Segments)>>)
                /\ cmb'.decoded = cmb.decoded
                /\ cmb.chunk_data = <<>>
                /\ Len(cmb'.progress) = Len(cmb.groups) ]_vars

\* five segments in groups of two: calls (0,5), (2,5), (4,5)
C18_Witness ==
    /\ cmb.pc = "returned" /\ cmb.ret = "True" /\ cmb.progress_callback
    /\ cmb.chunk_size = 2
    /\ cmb.progress = <<<<0, 5>>, <<2, 5>>, <<4, 5>>>>

\* C19: combine_audio_files never raises: after a failure in the first or
\* the second pass (unreadable segment, rate mismatch, I/O error, raising
\* callback) it returns False; after the failure no group is formed, no file
\* decoded, no callback made and nothing written; the output file of a
\* failed second pass stays where it is.
C19_NeverRaises ==
    /\ []( /\ cmb.pc # "raised"
           /\ cmb.pc # "none" => cmb.ret \in {"none", "True", "False"}
           /\ (cmb.pc = "returned" /\ cmb.failed_in # "none")
                => cmb.ret = "False"
           /\ (cmb.pc = "returned" /\ cmb.failed_in = "stream")
                => /\ CombinePath \in DOMAIN output
                   /\ output[CombinePath].header )
    /\ [][ (cmb.pc # "none" /\ cmb.failed_in # "none")
             => /\ cmb'.decoded = cmb.decoded
                /\ cmb'.progress = cmb.progress
                /\ cmb'.groups = cmb.groups
                /\ output' = output ]_vars

\* the second group failed: False is returned, the first group's frames stay
C19_Witness ==
    /\ cmb.pc = "returned" /\ cmb.ret = "False"
    /\ cmb.failed_in = "stream"
    /\ Len(cmb.groups) = 2 /\ Len(Segments) > 2 * cmb.chunk_size
    /\ output[CombinePath].frames # <<>>

\* C20: in the second pass chunk_data never holds more decoded segments
\* than the group size, it holds segments of the current group only, and
\* chunk_data and combined_chunk are released before the next group starts.
C20_BoundedGroupMemory ==
    cmb.pc # "none"
        => /\ Len(cmb.chunk_data) <= cmb.chunk_size
           /\ cmb.pc \in {"glob", "info", "loop", "callback", "returned"}
                => cmb.chunk_data = <<>> /\ cmb.combined_chunk = <<>>
           /\ cmb.pc = "decode" => cmb.combined_chunk = <<>>
           /\ cmb.pc \in {"decode", "write"}
                => cmb.chunk_data
                     = [k \in 1..Len(cmb.chunk_data)
                          |-> cmb.chunk_files[k].data]

\* the second full group of two is held while five segments are combined
C20_Witness ==
    /\ cmb.pc = "write" /\ cmb.chunk_size = 2 /\ cmb.i = 2
    /\ Len(cmb.audio_files) = 5
    /\ Len(cmb.chunk_data) = 2

(* ------------------------- state store claims -------------------------- *)

\* what a map holding the records saved so far gives for an input path
Expected(p) ==
    IF p.stem \in DOMAIN sm.shadow THEN <<sm.shadow[p.stem]>> ELSE <<>>

C29_Original ==
    (sm.op = "save" /\ sm.dir_at_call = "missing")
        => /\ state_dir = "present"
           /\ load_state(store, sm.arg) = sm.job

\* C22 as stated: a State Store operation that fails never changes the
\* outcome of process_pdf: an invocation that got through its three phases
\* returns True, also when a save, a load or the final delete fails.
C22_Original ==
    [][ (pc = "cleanup" /\ pc' # "cleanup")
          => (pc' = "idle" /\ ret' = "True") ]_vars

(* ------------------------ orchestrator claims, 2 ----------------------- *)

\* C24: an invocation with resume off, or with no record to load, works on a
\* new record (pending, no flag set, retry_count 0, started now) whatever is
\* persisted: every phase that is not skipped runs its collaborator again,
\* and a failure of the invocation leaves retry_count 1 persisted.
C24_FreshRecord ==
    /\ [][ (pc = "idle" /\ pc' = "phase1"
              /\ (~call'.resume \/ loaded' = <<>>))
             => job' = <<[input_path      |-> call'.path,
                          output_path     |-> OutputPath(call'.path),
                          status          |-> "pending",
                          started_at      |-> "now",
                          completed_at    |-> "None",
                          error           |-> "None",
                          extraction_done |-> FALSE,
                          generation_done |-> FALSE,
                          combination_done|-> FALSE,
                          retry_count     |-> 0]>> ]_vars
    /\ []( (ret \in {"running", "True", "False"} /\ trace # <<>>
              /\ (~call.resume \/ loaded = <<>>))
             => /\ pc \in {"phase2", "call_generate", "in_generate",
                           "done_generate", "phase3", "call_combine",
                           "in_combine", "done_combine", "cleanup"}
                     => (call.skip_extraction \/ "extract" \in Range(trace))
                /\ pc \in {"phase3", "call_combine", "in_combine",
                           "done_combine", "cleanup"}
                     => (call.skip_generation \/ "generate" \in Range(trace))
                /\ (pc = "cleanup" \/ (pc = "idle" /\ ret = "True"))
                     => "combine" \in Range(trace)
                /\ (pc = "idle" /\ ret = "False")
                     => /\ JobId \in DOMAIN store
                        /\ store[JobId].retry_count = 1
                        /\ store[JobId].status = "failed" )

\* with resume off a record that had failed twice is ignored: the failure of
\* this invocation leaves retry_count 1
C24_Witness ==
    /\ pc = "idle" /\ ret = "False" /\ ~call.resume
    /\ loaded # <<>> /\ loaded[1].retry_count = 2
    /\ loaded[1].extraction_done
    /\ "extract" \in Range(trace)
    /\ store[JobId].retry_count = 1

\* the collaborator calls of the current invocation, in order
IsCollaborator(e) == e \in {"extract", "generate", "combine"}
Calls(t) == SelectSeq(t, IsCollaborator)

\* the phase was flagged done in the record this invocation resumed
FlaggedExtraction == Resumed /\ loaded[1].extraction_done
FlaggedGeneration == Resumed /\ loaded[1].generation_done

\* C25: in one invocation each collaborator is called at most once, in the
\* order Extractor, Synthesizer, Combiner; the Synthesizer and the Combiner
\* are called only when every earlier phase is skipped, was flagged done or
\* has succeeded in this invocation; after a failure no collaborator is called.
C25_PhaseOrder ==
    /\ [](Calls(trace) \in {<<>>, <<"extract">>, <<"generate">>, <<"combine">>,
                            <<"extract", "generate">>,
                            <<"extract", "combine">>,
                            <<"generate", "combine">>,
                            <<"extract", "generate", "combine">>})
    /\ [][ (pc # "idle" /\ Calls(trace') # Calls(trace))
             => /\ pc \notin {"except", "cleanup"}
                /\ Calls(trace')[Len(Calls(trace'))] \in {"generate", "combine"}
                     => \/ call.skip_extraction
                        \/ FlaggedExtraction
                        \/ /\ "extract" \in Range(trace)
                           /\ Job.extraction_done
                /\ Calls(trace')[Len(Calls(trace'))] = "combine"
                     => \/ call.skip_generation
                        \/ FlaggedGeneration
                        \/ /\ "generate" \in Range(trace)
                           /\ Job.generation_done ]_vars
    /\ [][ pc = "except"
             => (pc' \in {"except", "idle"} /\ Calls(trace') = Calls(trace))
         ]_vars

\* a new job ran its three collaborators once each, in order
C25_Witness ==
    /\ pc = "idle" /\ ret = "True" /\ ~Resumed
    /\ Calls(trace) = <<"extract", "generate", "combine">>

\* the place of a status on pending -> extracting -> generating ->
\* combining -> completed
Rank(status) ==
    CASE status = "pending"    -> 0
      [] status = "extracting" -> 1
      [] status = "generating" -> 2
      [] status = "combining"  -> 3
      [] status = "completed"  -> 4
      [] OTHER                 -> -1

WorkingStatuses == {"extracting", "generating", "combining"}

\* C26 as stated: within one invocation the status of the job only moves
\* forward along pending -> extracting -> generating -> combining ->
\* completed, it becomes failed only from extracting, generating or
\* combining, and it never leaves completed.
C26_Original ==
    /\ [][ (job # NoJob /\ job' # NoJob /\ job'[1].status # Job.status)
             => /\ Job.status # "completed"
                /\ Rank(Job.status) >= 0
                /\ Rank(job'[1].status) > Rank(Job.status) ]_vars
    /\ [][ (pc = "except" /\ pc' = "idle" /\ ret' = "False")
             => Job.status \in WorkingStatuses ]_vars

\* C26: the statuses a single invocation assigns go forward along
\* extracting -> generating -> combining -> completed, above pending for a
\* new record; the first assignment of an invocation that resumed a record
\* may replace any persisted status (failed, or a working status of any
\* phase). The job is marked failed from a working status assigned in this
\* invocation, or from completed when the final delete of the state file
\* raises; nothing else leaves completed.
C26_StatusMachine ==
    /\ [][ (job # NoJob /\ job' # NoJob /\ job'[1].status # Job.status)
             => /\ Rank(job'[1].status) >= 1
                /\ \/ /\ Rank(Job.status) >= 0
                      /\ Rank(job'[1].status) > Rank(Job.status)
                      /\ Job.status # "completed"
                   \/ Resumed /\ trace = <<"load">> ]_vars
    /\ [][ (pc = "except" /\ pc' = "idle" /\ ret' = "False")
             => /\ "save" \in Range(trace)
                /\ \/ Job.status \in WorkingStatuses
                   \/ /\ Job.status = "completed"
                      /\ err = "unlink failed"
                      /\ state_dir = "faulty" ]_vars
    /\ []( (job # NoJob /\ Job.status = "failed")
              => (Resumed /\ loaded[1].status = "failed") )

\* an invocation that resumed a failed record marked it generating
C26_Witness ==
    /\ pc = "call_generate" /\ Resumed
    /\ loaded[1].status = "failed" /\ loaded[1].extraction_done
    /\ Job.status = "generating"
    /\ trace = <<"load", "save">>

\* C27 as stated: whatever invocations, failures and kills came before, for
\* any inputs processed with the same State Store, when process_pdf returns
\* True the output of its input exists and is not empty.
C27_Original ==
    (pc = "idle" /\ ret = "True")
        => /\ OutputPath(call.path) \in DOMAIN output
           /\ \/ output[OutputPath(call.path)].header
              \/ output[OutputPath(call.path)].frames # <<>>

\* C28 as stated: when the caller re-invokes process_pdf with resume on
\* after every failed or killed invocation, and failures and kills happen
\* only finitely often, some invocation returns True after each of the three
\* collaborators has run to successful completion; every invocation ends.
C28_Original ==
    /\ []<>(pc = "idle")
    /\ (<>[](ret \notin {"killed", "False"}))
          => <>(/\ pc = "idle" /\ ret = "True"
                /\ succeeded[get_job_id(call.path)] = Phases)

====
